---- MODULE Spec2Model ----
(***************************************************************************)
(* Model of the two batch utilities of fc-trails:                          *)
(*   scripts/generate-thumbnails.py  (the Thumbnail Generator)             *)
(*   scripts/generate-icons.py       (the Icon Generator)                  *)
(*                                                                         *)
(* File names are sequences of character codes, so that sorted(), suffix,  *)
(* stem and lower() are computed the way Python computes them.  Images are *)
(* records of what the scripts read of them: decodability, colour mode and *)
(* pixel dimensions; one representative pixel (colour, alpha) stands for   *)
(* the pixel data where compositing is concerned.                          *)
(***************************************************************************)
EXTENDS Integers, Sequences, FiniteSets

VARIABLES
    fs,        \* the input tree under trails/ (never written by the scripts)
    thumbs,    \* per waypoint: the thumbs entry, [kind, jpgs]
    pc,        \* position of the Thumbnail Generator
    run,       \* number of the current run of the Thumbnail Generator
    trailQ,    \* main: entries of sorted(trails_dir.iterdir()) still to visit
    curTrail,  \* process_trail: trail_path.name
    wpQ,       \* process_trail: entries of sorted(photos_dir.iterdir()) to visit
    curWp,     \* process_trail: waypoint_dir.name
    fileQ,     \* process_trail: entries of sorted(waypoint_dir.iterdir()) to visit
    log,       \* per run: the images handed to create_square_thumbnail, in order
    reports,   \* per run: the "Processed waypoint" lines, [trail, wp, count]
    failed,    \* the image whose processing raised, or NoFile
    img,       \* pure-function specifications: the input image
    res,       \* pure-function specifications: the result
    ipc,       \* position of the Icon Generator
    logo,      \* images/fcf-logo.png: [exists, image]
    icons      \* the files of icons/: name -> what was written

vars == <<fs, thumbs, pc, run, trailQ, curTrail, wpQ, curWp, fileQ, log,
          reports, failed, img, res, ipc, logo, icons>>

walkVars == <<fs, thumbs, pc, run, trailQ, curTrail, wpQ, curWp, fileQ, log,
              reports, failed>>
pureVars == <<img, res>>
iconVars == <<ipc, logo, icons>>

-----------------------------------------------------------------------------
(* Bounds of the model                                                     *)

\* at most this many entries are placed in the waypoint directories of a tree
MaxFiles == 2
\* the Thumbnail Generator is run at most this many times on a tree
MaxRuns == 2
\* image widths and heights range over 1..MaxDim in the crop specification
MaxDim == 12
\* logo widths and heights range over 1..MaxLogoDim
MaxLogoDim == 6
\* entries placed in the tree when both utilities run side by side
MaxFilesBoth == 1

(* Program constants                                                       *)
THUMBNAIL_SIZE == 160
JPEG_QUALITY == 85
\* 8-bit channels: the white of Image.new('RGB', ..., (255, 255, 255))
ChannelMax == 255

-----------------------------------------------------------------------------
(* Strings: sequences of character codes                                   *)

Dot == 46
\* "thumbs", "photos", ".jpg"
StrThumbs == <<116, 104, 117, 109, 98, 115>>
StrDotJpg == <<46, 106, 112, 103>>
\* ('.jpg', '.jpeg', '.png', '.webp')
ImageSuffixes ==
    { <<46, 106, 112, 103>>, <<46, 106, 112, 101, 103>>,
      <<46, 112, 110, 103>>, <<46, 119, 101, 98, 112>> }

\* str.lower() on one ASCII character
LowerChar(c) == IF c >= 65 /\ c <= 90 THEN c + 32 ELSE c
Lower(s) == [i \in DOMAIN s |-> LowerChar(s[i])]

\* str.rfind('.') as a 1-based position, 0 when there is no dot
RFindDot(s) ==
    LET ds == {i \in DOMAIN s : s[i] = Dot}
    IN  IF ds = {} THEN 0 ELSE CHOOSE i \in ds : \A j \in ds : j <= i

\* PurePath.suffix: the text from the last dot, unless the name starts or
\* ends with that dot
Suffix(name) ==
    LET i == RFindDot(name)
    IN  IF 1 < i /\ i < Len(name) THEN SubSeq(name, i, Len(name)) ELSE <<>>

\* PurePath.stem
Stem(name) ==
    LET i == RFindDot(name)
    IN  IF 1 < i /\ i < Len(name) THEN SubSeq(name, 1, i - 1) ELSE name

\* the order of sorted() on the paths of one directory: the names compared
\* as strings, code point by code point, case-sensitively (POSIX paths)
RECURSIVE StrLess(_, _)
StrLess(a, b) ==
    IF a = <<>> THEN b # <<>>
    ELSE IF b = <<>> THEN FALSE
    ELSE IF Head(a) # Head(b) THEN Head(a) < Head(b)
    ELSE StrLess(Tail(a), Tail(b))

\* the listing taken as iterdir() yields it, here last name first
RECURSIVE Unsorted(_)
Unsorted(entries) ==
    IF entries = {} THEN <<>>
    ELSE LET m == CHOOSE e \in entries :
                    \A o \in entries : o = e \/ StrLess(o.name, e.name)
         IN  <<m>> \o Unsorted(entries \ {m})

\* sorted(dir.iterdir()): the entries of a directory listing, by name
RECURSIVE Sorted(_)
Sorted(entries) ==
    IF entries = {} THEN <<>>
    ELSE LET m == CHOOSE e \in entries :
                    \A o \in entries : o = e \/ StrLess(e.name, o.name)
         IN  <<m>> \o Sorted(entries \ {m})

-----------------------------------------------------------------------------
(* Images                                                                  *)

\* the colour modes Pillow decodes a .jpg/.jpeg/.png/.webp file to
Modes == {"1", "L", "LA", "I;16", "P", "RGB", "RGBA", "CMYK"}
\* the modes Pillow's JPEG encoder writes; any other raises OSError
JpegModes == {"1", "L", "RGB", "RGBX", "CMYK", "YCbCr"}
\* the modes whose pixels carry an alpha value
AlphaModes == {"LA", "RGBA"}

\* a pixel is [c, a]: one colour channel (all channels are treated alike)
\* and its alpha; a pixel of a mode without alpha has a = ChannelMax
Pixel(c, a) == [c |-> c, a |-> a]
OpaqueGrey == Pixel(100, ChannelMax)

Image(corrupt, mode, w, h, pix) ==
    [corrupt |-> corrupt, mode |-> mode, w |-> w, h |-> h, pix |-> pix]

\* img.convert('RGB') of create_square_thumbnail: only RGBA and P images
\* are converted; the conversion copies the colour and drops the alpha
ThumbMode(mode) == IF mode \in {"RGBA", "P"} THEN "RGB" ELSE mode
ThumbPixel(mode, pix) ==
    IF mode \in {"RGBA", "P"} THEN Pixel(pix.c, ChannelMax) ELSE pix

\* the crop box with the margin not halved
CropBoxNotHalved(width, height) ==
    IF width > height
    THEN LET left == width - height
         IN  [left |-> left, top |-> 0, right |-> left + height,
              bottom |-> height]
    ELSE LET top == height - width
         IN  [left |-> 0, top |-> top, right |-> width,
              bottom |-> top + width]

\* the crop box (left, top, right, bottom) for a width x height image
CropBox(width, height) ==
    IF width > height
    THEN LET left == (width - height) \div 2
         IN  [left |-> left, top |-> 0, right |-> left + height,
              bottom |-> height]
    ELSE LET top == (height - width) \div 2
         IN  [left |-> 0, top |-> top, right |-> width,
              bottom |-> top + width]

\* img.crop(box): the size of the cropped image
CropSize(box) == [w |-> box.right - box.left, h |-> box.bottom - box.top]

\* img.resize((size, size), LANCZOS): the size of the resized image
Resize(size) == [w |-> size, h |-> size]

NoBox == [left |-> 0, top |-> 0, right |-> 0, bottom |-> 0]
NoSize == [w |-> 0, h |-> 0]

\* the outcome of create_square_thumbnail: the error raised ("" when none),
\* the mode, crop box and cropped size computed, and the image written
Outcome(error, mode, box, cropped, size, pix) ==
    [ok |-> error = "", error |-> error, mode |-> mode, box |-> box,
     cropped |-> cropped, w |-> size.w, h |-> size.h, pix |-> pix,
     quality |-> IF error = "" THEN JPEG_QUALITY ELSE 0]

\* create_square_thumbnail(input_path, output_path): Image.open raises on
\* an undecodable file; save(..., 'JPEG') raises on a mode JPEG cannot hold
create_square_thumbnail(image) ==
    IF image.corrupt
    THEN Outcome("DecodeError", "", NoBox, NoSize, NoSize, image.pix)
    ELSE LET mode == ThumbMode(image.mode)
             pix == ThumbPixel(image.mode, image.pix)
             box == CropBox(image.w, image.h)
             cropped == CropSize(box)
             thumb == Resize(THUMBNAIL_SIZE)
         IN  IF mode \notin JpegModes
             THEN Outcome("EncodeError", mode, box, cropped, NoSize, pix)
             ELSE Outcome("", mode, box, cropped, thumb, pix)

-----------------------------------------------------------------------------
(* The input tree: trails/<trail>/photos/<waypoint>/<entries>              *)

\* "A", "B"
TrailNames == { <<65>>, <<66>> }
\* "W1", "W2"
WaypointNames == { <<87, 49>>, <<87, 50>> }
Places == TrailNames \X WaypointNames

NoImage == Image(TRUE, "", 0, 0, OpaqueGrey)
Entry(name, kind, image) == [name |-> name, kind |-> kind, image |-> image]
File(name, image) == Entry(name, "file", image)
Dir(name) == Entry(name, "dir", NoImage)

\* a regular file beside the trail directories, and one beside the
\* waypoint directories: "README.md", "cover.jpg"
StrayRootFile == File(<<82, 69, 65, 68, 77, 69, 46, 109, 100>>, NoImage)
StrayPhotosFile ==
    File(<<99, 111, 118, 101, 114, 46, 106, 112, 103>>,
         Image(FALSE, "RGB", 4, 3, OpaqueGrey))

\* "old.jpg": a thumbnail left in thumbs/ by an earlier run
StrOldJpg == <<111, 108, 100, 46, 106, 112, 103>>

\* the entries a waypoint directory may hold
ImgUpperJpg ==   \* "img.JPG", 300x200
    File(<<105, 109, 103, 46, 74, 80, 71>>,
         Image(FALSE, "RGB", 300, 200, OpaqueGrey))
ImgLowerPng ==   \* "img.png", 200x300 with alpha
    File(<<105, 109, 103, 46, 112, 110, 103>>,
         Image(FALSE, "RGBA", 200, 300, Pixel(0, 0)))
NotesTxt ==      \* "notes.txt"
    File(<<110, 111, 116, 101, 115, 46, 116, 120, 116>>, NoImage)
BadWebp ==       \* "bad.WebP", not decodable
    File(<<98, 97, 100, 46, 87, 101, 98, 80>>, NoImage)
GreyAlphaPng ==  \* "g.png", greyscale with alpha
    File(<<103, 46, 112, 110, 103>>,
         Image(FALSE, "LA", 5, 5, Pixel(7, 9)))
HiddenJpg ==     \* ".jpg"
    File(<<46, 106, 112, 103>>, Image(FALSE, "RGB", 1, 1, OpaqueGrey))
AlbumDir ==      \* "album.png", a directory
    Dir(<<97, 108, 98, 117, 109, 46, 112, 110, 103>>)
ThumbsDirOld ==  \* "thumbs", a directory that holds old.jpg
    Dir(StrThumbs)
ThumbsFile ==    \* "thumbs", a regular file
    File(StrThumbs, NoImage)

EntryUniverse ==
    { ImgUpperJpg, ImgLowerPng, NotesTxt, BadWebp, GreyAlphaPng, HiddenJpg,
      AlbumDir, ThumbsDirOld, ThumbsFile }

\* the subsets of S with at most k elements
RECURSIVE SubsetsUpTo(_, _)
SubsetsUpTo(S, k) ==
    IF k = 0 THEN {{}}
    ELSE LET prev == SubsetsUpTo(S, k - 1)
         IN  prev \cup {p \cup {x} : p \in prev, x \in S}

\* a directory holds no two entries of one name
UniqueNames(entries) ==
    \A e1 \in entries, e2 \in entries : e1.name = e2.name => e1 = e2

\* The tree with trail directories `trails`, of which those in `withPhotos`
\* have a photos directory holding the waypoint directories wps[t], the
\* entries `placed` (pairs <<place, entry>>) and, when `stray`, stray files
\* (trails/ and photos/, where they exist, are directories; every entry is
\* a directory or a regular file)
Tree(exists, trails, withPhotos, wps, placed, stray) ==
    [exists |-> exists,
     root   |-> {Dir(t) : t \in trails}
                \cup (IF stray /\ exists THEN {StrayRootFile} ELSE {}),
     photos |-> [t \in TrailNames |-> t \in withPhotos],
     wps    |-> [t \in TrailNames |->
                   IF t \in withPhotos
                   THEN {Dir(w) : w \in wps[t]}
                        \cup (IF stray THEN {StrayPhotosFile} ELSE {})
                   ELSE {}],
     files  |-> [p \in Places |->
                   {pe[2] : pe \in {q \in placed : q[1] = p}}
                   \ {ThumbsDirOld, ThumbsFile}]]

\* thumbs/ of a waypoint before the first run
InitialThumbs(placed) ==
    [p \in Places |->
       IF <<p, ThumbsDirOld>> \in placed
       THEN [kind |-> "dir", jpgs |-> {[name |-> StrOldJpg, src |-> <<>>]}]
       ELSE IF <<p, ThumbsFile>> \in placed
       THEN [kind |-> "file", jpgs |-> {}]
       ELSE [kind |-> "absent", jpgs |-> {}]]

\* the trees with at most maxFiles entries in the waypoint directories
InitTree(maxFiles) ==
    \E exists \in BOOLEAN, stray \in BOOLEAN :
    \E trails \in SUBSET TrailNames :
    \E withPhotos \in SUBSET trails :
    \E wps \in [TrailNames -> SUBSET WaypointNames] :
        /\ ~exists => trails = {} /\ ~stray
        /\ \A t \in TrailNames : t \notin withPhotos => wps[t] = {}
        /\ LET dirs == {p \in Places : p[2] \in wps[p[1]]}
           IN  \E placed \in SubsetsUpTo(dirs \X EntryUniverse, maxFiles) :
                 /\ \A p \in dirs :
                       UniqueNames({pe[2] : pe \in {q \in placed : q[1] = p}})
                 /\ fs = Tree(exists, trails, withPhotos, wps, placed, stray)
                 /\ thumbs = InitialThumbs(placed)

NoFile == [trail |-> <<>>, wp |-> <<>>, name |-> <<>>]

InitWalk ==
    /\ pc = "start"
    /\ run = 1
    /\ trailQ = <<>>
    /\ curTrail = <<>>
    /\ wpQ = <<>>
    /\ curWp = <<>>
    /\ fileQ = <<>>
    /\ log = [r \in 1..MaxRuns |-> <<>>]
    /\ reports = [r \in 1..MaxRuns |-> <<>>]
    /\ failed = NoFile


-----------------------------------------------------------------------------
(* The Thumbnail Generator                                                 *)

Place == <<curTrail, curWp>>

\* waypoint_dir.iterdir(): the input entries and the thumbs entry
Listing(place, th) ==
    fs.files[place]
    \cup (IF th[place].kind = "dir" THEN {Dir(StrThumbs)}
          ELSE IF th[place].kind = "file" THEN {ThumbsFile}
          ELSE {})

\* the suffix compared without lower()
IsImageNameCaseSensitive(name) == Suffix(name) \in ImageSuffixes

\* img_file.suffix.lower() in ('.jpg', '.jpeg', '.png', '.webp')
IsImageName(name) == Lower(Suffix(name)) \in ImageSuffixes

\* img_file.stem + '.jpg'
ThumbName(name) == Stem(name) \o StrDotJpg

\* thumbs_dir.glob('*.jpg'): the names that end in ".jpg"
GlobJpg(jpgs) ==
    {j \in jpgs : /\ Len(j.name) >= Len(StrDotJpg)
                  /\ SubSeq(j.name, Len(j.name) - Len(StrDotJpg) + 1,
                            Len(j.name)) = StrDotJpg}

\* a save that leaves an existing file of that name alone
WriteThumbKeep(jpgs, name, src) ==
    IF \E j \in jpgs : j.name = name THEN jpgs
    ELSE jpgs \cup {[name |-> name, src |-> src]}

\* save(output_path): the file of that name is replaced
WriteThumb(jpgs, name, src) ==
    {j \in jpgs : j.name # name} \cup {[name |-> name, src |-> src]}

\* what the loop over a waypoint's entries does with one entry:
\* "skip" (a directory, or not an image name) or "thumbnail"
EntryStep(e) ==
    IF e.kind = "dir" THEN "skip"
    ELSE IF ~IsImageName(e.name) THEN "skip"
    ELSE "thumbnail"

\* mkdir() without exist_ok raises whenever the path exists
MkdirNoExistOk(kind) == kind # "absent"

\* thumbs_dir.mkdir(exist_ok=True) raises FileExistsError only when the
\* path exists and is no directory
MkdirRaises(kind) == kind = "file"

\* the exception caught around one file, the loop going on
OnRaiseContinue == "wp_loop"

\* what happens when create_square_thumbnail raises inside the loops: the
\* exception is caught nowhere and ends the run
OnRaise == "error"

\* main(), up to its loop: a missing trails directory is reported and the
\* run returns
Main ==
    /\ pc = "start"
    /\ IF ~fs.exists
       THEN pc' = "done" /\ trailQ' = <<>>
       ELSE pc' = "main_loop" /\ trailQ' = Sorted(fs.root)
    /\ UNCHANGED <<fs, thumbs, run, curTrail, wpQ, curWp, fileQ, log,
                   reports, failed>>

\* one iteration of main's loop with the part of process_trail before its
\* loop; the end of the loop prints "Done!"
MainLoop ==
    /\ pc = "main_loop"
    /\ IF trailQ = <<>>
       THEN pc' = "done" /\ UNCHANGED <<trailQ, curTrail, wpQ>>
       ELSE LET trail_dir == Head(trailQ)
            IN  /\ trailQ' = Tail(trailQ)
                /\ IF trail_dir.kind # "dir"
                   THEN UNCHANGED <<pc, curTrail, wpQ>>
                   ELSE /\ curTrail' = trail_dir.name
                        /\ IF ~fs.photos[trail_dir.name]
                           THEN UNCHANGED <<pc, wpQ>>
                           ELSE /\ pc' = "trail_loop"
                                /\ wpQ' = Sorted(fs.wps[trail_dir.name])
    /\ UNCHANGED <<fs, thumbs, run, curWp, fileQ, log, reports, failed>>

\* one iteration of process_trail's loop over the waypoints, up to the
\* loop over the entries: mkdir(exist_ok=True) raises FileExistsError when
\* thumbs is not a directory
TrailLoop ==
    /\ pc = "trail_loop"
    /\ IF wpQ = <<>>
       THEN /\ pc' = "main_loop"
            /\ UNCHANGED <<wpQ, curWp, fileQ, thumbs, failed>>
       ELSE LET waypoint_dir == Head(wpQ)
                place == <<curTrail, waypoint_dir.name>>
            IN  /\ wpQ' = Tail(wpQ)
                /\ IF waypoint_dir.kind # "dir"
                   THEN UNCHANGED <<pc, curWp, fileQ, thumbs, failed>>
                   ELSE /\ curWp' = waypoint_dir.name
                        /\ IF MkdirRaises(thumbs[place].kind)
                           THEN /\ pc' = OnRaise
                                /\ failed' = [trail |-> place[1],
                                              wp |-> place[2],
                                              name |-> StrThumbs]
                                /\ UNCHANGED <<fileQ, thumbs>>
                           ELSE /\ thumbs' = [thumbs EXCEPT
                                                ![place].kind = "dir"]
                                /\ fileQ' = Sorted(Listing(place, thumbs'))
                                /\ pc' = "wp_loop"
                                /\ UNCHANGED failed
    /\ UNCHANGED <<fs, run, trailQ, curTrail, log, reports>>

\* one iteration of the loop over a waypoint's entries; the end of the loop
\* prints the number of .jpg files in thumbs/
WaypointLoop ==
    /\ pc = "wp_loop"
    /\ IF fileQ = <<>>
       THEN /\ reports' = [reports EXCEPT ![run] = Append(@,
                  [trail |-> curTrail, wp |-> curWp,
                   count |-> Cardinality(GlobJpg(thumbs[Place].jpgs))])]
            /\ pc' = "trail_loop"
            /\ UNCHANGED <<fileQ, thumbs, log, failed>>
       ELSE LET img_file == Head(fileQ)
                this == [trail |-> curTrail, wp |-> curWp,
                         name |-> img_file.name]
            IN  /\ fileQ' = Tail(fileQ)
                /\ IF EntryStep(img_file) = "skip"
                   THEN UNCHANGED <<pc, thumbs, log, reports, failed>>
                   ELSE LET out == create_square_thumbnail(img_file.image)
                        IN  /\ log' = [log EXCEPT ![run] = Append(@, this)]
                            /\ IF out.ok
                               THEN /\ thumbs' = [thumbs EXCEPT
                                          ![Place].jpgs = WriteThumb(@,
                                              ThumbName(img_file.name),
                                              img_file.name)]
                                    /\ UNCHANGED <<pc, failed>>
                               ELSE /\ pc' = OnRaise
                                    /\ failed' = this
                                    /\ UNCHANGED thumbs
                            /\ UNCHANGED reports
    /\ UNCHANGED <<fs, run, trailQ, curTrail, wpQ, curWp>>

\* the script is started again on the tree as the previous run left it
Rerun ==
    /\ pc = "done"
    /\ run < MaxRuns
    /\ run' = run + 1
    /\ pc' = "start"
    /\ trailQ' = <<>> /\ curTrail' = <<>> /\ wpQ' = <<>> /\ curWp' = <<>>
    /\ fileQ' = <<>>
    /\ UNCHANGED <<fs, thumbs, log, reports, failed>>

-----------------------------------------------------------------------------
(* The Icon Generator                                                      *)

\* "icon-192.png", "icon-512.png", "apple-touch-icon.png", "favicon.ico",
\* "favicon-32.png"
StrIcon192 == <<105, 99, 111, 110, 45, 49, 57, 50, 46, 112, 110, 103>>
StrIcon512 == <<105, 99, 111, 110, 45, 53, 49, 50, 46, 112, 110, 103>>
StrAppleTouch ==
    <<97, 112, 112, 108, 101, 45, 116, 111, 117, 99, 104, 45, 105, 99, 111,
      110, 46, 112, 110, 103>>
StrFaviconIco == <<102, 97, 118, 105, 99, 111, 110, 46, 105, 99, 111>>
StrFavicon32 ==
    <<102, 97, 118, 105, 99, 111, 110, 45, 51, 50, 46, 112, 110, 103>>

\* sizes = [192, 512]; apple_size = 180; favicon_sizes = [16, 32, 48]
PwaSizes == <<192, 512>>
AppleSize == 180
FaviconSizes == <<16, 32, 48>>
FaviconPngSize == 32

\* img.convert('RGBA') unless the mode is RGBA already: a mode without
\* alpha becomes fully opaque
ToRGBA(image) ==
    [image EXCEPT !.mode = "RGBA",
                  !.pix = IF image.mode \in AlphaModes THEN image.pix
                          ELSE Pixel(image.pix.c, ChannelMax)]

\* img.resize((size, size), LANCZOS) of an RGBA image: `pix` stands for
\* the pixel of the resized image
Resized(image, size) ==
    [mode |-> image.mode, w |-> Resize(size).w, h |-> Resize(size).h,
     pix |-> image.pix]

\* Pillow's rounded division by 255 of a 16-bit product
Div255(x) == LET t == x + 128 IN ((t \div 256) + t) \div 256

\* one channel of background.paste(resized, (0, 0), resized): the pasted
\* colour weighted by its own alpha over the background colour
Blend(bg, pix) == Div255(bg * (ChannelMax - pix.a) + pix.c * pix.a)

\* resized.convert('RGB') in place of the paste: the alpha is dropped
DropAlpha(resized) ==
    [mode |-> "RGB", w |-> resized.w, h |-> resized.h,
     pix |-> Pixel(resized.pix.c, ChannelMax)]

\* Image.new('RGB', (size, size), (255, 255, 255)) with `resized` pasted
\* through its alpha channel
OnWhite(resized) ==
    [mode |-> "RGB", w |-> resized.w, h |-> resized.h,
     pix |-> Pixel(Blend(ChannelMax, resized.pix), ChannelMax)]

\* image.save(path, 'PNG'): a file of one frame
PngFile(name, image) ==
    [name |-> name, format |-> "PNG", mode |-> image.mode,
     frames |-> {[w |-> image.w, h |-> image.h]}, pix |-> image.pix]

\* images[1].save(path, format='ICO', sizes=..., append_images=rest):
\* Pillow writes one frame per requested size, skipping every size larger
\* than the image save() is called on (or than 256)
IcoFrames(images, sizes) ==
    LET first == images[1]
        kept == {i \in DOMAIN sizes :
                    ~(sizes[i] > first.w \/ sizes[i] > first.h
                      \/ sizes[i] > 256)}
    IN  {[w |-> sizes[i], h |-> sizes[i]] : i \in kept}

IcoFile(name, images, sizes) ==
    [name |-> name, format |-> "ICO", mode |-> images[1].mode,
     frames |-> IcoFrames(images, sizes), pix |-> images[1].pix]

\* a file written into icons/ replaces the file of that name
WriteIcon(files, f) == {g \in files : g.name # f.name} \cup {f}

Logo == ToRGBA(logo.image)

\* a generate_icons that looks for trail directories first and returns
\* when there are none
IconsOpenNeedsTrails ==
    /\ ipc = "start"
    /\ IF fs.exists /\ ~(\E e \in fs.root : e.kind = "dir")
       THEN ipc' = "done" /\ UNCHANGED icons
       ELSE IF icons.kind = "file"
       THEN ipc' = "error" /\ UNCHANGED icons
       ELSE /\ icons' = [icons EXCEPT !.kind = "dir"]
            /\ ipc' = IF logo.exists /\ ~logo.image.corrupt
                      THEN "pwa" ELSE "error"
    /\ UNCHANGED logo

\* generate_icons up to the first resize: icons/ is created, the logo is
\* opened and normalised to RGBA; a missing or undecodable logo raises
IconsOpen ==
    /\ ipc = "start"
    /\ IF icons.kind = "file"
       THEN ipc' = "error" /\ UNCHANGED icons
       ELSE /\ icons' = [icons EXCEPT !.kind = "dir"]
            /\ ipc' = IF logo.exists /\ ~logo.image.corrupt
                      THEN "pwa" ELSE "error"
    /\ UNCHANGED logo

\* the loop over sizes = [192, 512]
IconsPwa ==
    /\ ipc = "pwa"
    /\ icons' = [icons EXCEPT !.files =
          WriteIcon(WriteIcon(@,
              PngFile(StrIcon192, Resized(Logo, PwaSizes[1]))),
              PngFile(StrIcon512, Resized(Logo, PwaSizes[2])))]
    /\ ipc' = "apple"
    /\ UNCHANGED logo

\* the Apple touch icon, flattened onto white
IconsApple ==
    /\ ipc = "apple"
    /\ icons' = [icons EXCEPT !.files =
          WriteIcon(@, PngFile(StrAppleTouch,
                               OnWhite(Resized(Logo, AppleSize))))]
    /\ ipc' = "favicon"
    /\ UNCHANGED logo

\* favicon_images and favicon.ico
IconsFavicon ==
    /\ ipc = "favicon"
    /\ LET favicon_images ==
               [i \in DOMAIN FaviconSizes |->
                   OnWhite(Resized(Logo, FaviconSizes[i]))]
       IN  icons' = [icons EXCEPT !.files =
              WriteIcon(@, IcoFile(StrFaviconIco, favicon_images,
                                   FaviconSizes))]
    /\ ipc' = "favicon32"
    /\ UNCHANGED logo

\* favicon-32.png and the final "Done!"
IconsFavicon32 ==
    /\ ipc = "favicon32"
    /\ icons' = [icons EXCEPT !.files =
          WriteIcon(@, PngFile(StrFavicon32, Resized(Logo, FaviconPngSize)))]
    /\ ipc' = "done"
    /\ UNCHANGED logo

-----------------------------------------------------------------------------
(* create_square_thumbnail applied to one image                            *)

NotRun == Outcome("not run", "", NoBox, NoSize, NoSize, OpaqueGrey)

Thumbnail ==
    /\ res = NotRun
    /\ res' = create_square_thumbnail(img)
    /\ UNCHANGED img

-----------------------------------------------------------------------------
(* Specifications                                                          *)

IdlePure == img = NoImage /\ res = NotRun
IdleIcons ==
    /\ ipc = "idle"
    /\ logo = [exists |-> FALSE, image |-> NoImage]
    /\ icons = [kind |-> "absent", files |-> {}]

\* The Thumbnail Generator, run up to MaxRuns times on a tree
Init == InitTree(MaxFiles) /\ InitWalk /\ IdlePure /\ IdleIcons

Next ==
    \/ Main /\ UNCHANGED <<pureVars, iconVars>>
    \/ MainLoop /\ UNCHANGED <<pureVars, iconVars>>
    \/ TrailLoop /\ UNCHANGED <<pureVars, iconVars>>
    \/ WaypointLoop /\ UNCHANGED <<pureVars, iconVars>>
    \/ Rerun /\ UNCHANGED <<pureVars, iconVars>>

Spec == Init /\ [][Next]_vars

IdleWalk ==
    /\ fs = Tree(FALSE, {}, {}, [t \in TrailNames |-> {}], {}, FALSE)
    /\ thumbs = InitialThumbs({})
    /\ InitWalk

\* create_square_thumbnail on every image of up to MaxDim x MaxDim pixels
InitCrop ==
    /\ \E corrupt \in BOOLEAN, mode \in Modes, w \in 1..MaxDim, h \in 1..MaxDim :
         img = Image(corrupt, mode, w, h,
                     IF mode \in AlphaModes THEN Pixel(0, 0) ELSE OpaqueGrey)
    /\ res = NotRun
    /\ IdleWalk
    /\ IdleIcons

NextCrop == Thumbnail /\ UNCHANGED <<walkVars, iconVars>>

SpecCrop == InitCrop /\ [][NextCrop]_vars

\* The Icon Generator on every logo of up to MaxLogoDim x MaxLogoDim pixels
LogoPixels == {Pixel(0, 0), Pixel(40, 128), Pixel(200, ChannelMax)}

InitIcons ==
    /\ ipc = "start"
    /\ \E exists \in BOOLEAN, corrupt \in BOOLEAN, mode \in Modes,
          w \in 1..MaxLogoDim, h \in 1..MaxLogoDim, pix \in LogoPixels :
         /\ ~exists => corrupt /\ mode = "RGBA" /\ w = 1 /\ h = 1
         /\ corrupt => mode = "RGBA" /\ w = 1 /\ h = 1
         /\ pix.a # ChannelMax => mode \in AlphaModes
         /\ logo = [exists |-> exists, image |-> Image(corrupt, mode, w, h, pix)]
    /\ \E kind \in {"absent", "dir", "file"} :
         icons = [kind |-> kind, files |-> {}]
    /\ IdlePure
    /\ IdleWalk

IconsNext ==
    \/ IconsOpen /\ UNCHANGED <<walkVars, pureVars>>
    \/ IconsPwa /\ UNCHANGED <<walkVars, pureVars>>
    \/ IconsApple /\ UNCHANGED <<walkVars, pureVars>>
    \/ IconsFavicon /\ UNCHANGED <<walkVars, pureVars>>
    \/ IconsFavicon32 /\ UNCHANGED <<walkVars, pureVars>>

SpecIcons == InitIcons /\ [][IconsNext]_vars

\* Every pixel value through the three places that write a format without
\* transparency: the Apple touch icon, the favicon, the JPEG thumbnail
InitPixel ==
    /\ \E c \in 0..ChannelMax, a \in 0..ChannelMax :
         /\ logo = [exists |-> TRUE,
                    image |-> Image(FALSE, "RGBA", 4, 3, Pixel(c, a))]
         /\ img = Image(FALSE, "RGBA", 4, 3, Pixel(c, a))
    /\ res = NotRun
    /\ ipc = "start"
    /\ icons = [kind |-> "absent", files |-> {}]
    /\ IdleWalk

PixelNext ==
    \/ IconsOpen /\ UNCHANGED <<walkVars, pureVars>>
    \/ IconsPwa /\ UNCHANGED <<walkVars, pureVars>>
    \/ IconsApple /\ UNCHANGED <<walkVars, pureVars>>
    \/ IconsFavicon /\ UNCHANGED <<walkVars, pureVars>>
    \/ IconsFavicon32 /\ UNCHANGED <<walkVars, pureVars>>
    \/ Thumbnail /\ UNCHANGED <<walkVars, iconVars>>

SpecPixel == InitPixel /\ [][PixelNext]_vars

\* Both utilities, each run once, in any interleaving
InitBoth ==
    /\ InitTree(MaxFilesBoth)
    /\ InitWalk
    /\ ipc = "start"
    /\ \E exists \in BOOLEAN :
         logo = [exists |-> exists,
                 image |-> Image(FALSE, "RGBA", 4, 3, Pixel(40, 128))]
    /\ icons = [kind |-> "absent", files |-> {}]
    /\ IdlePure

BothNext ==
    \/ Main /\ UNCHANGED <<pureVars, iconVars>>
    \/ MainLoop /\ UNCHANGED <<pureVars, iconVars>>
    \/ TrailLoop /\ UNCHANGED <<pureVars, iconVars>>
    \/ WaypointLoop /\ UNCHANGED <<pureVars, iconVars>>
    \/ IconsOpen /\ UNCHANGED <<walkVars, pureVars>>
    \/ IconsPwa /\ UNCHANGED <<walkVars, pureVars>>
    \/ IconsApple /\ UNCHANGED <<walkVars, pureVars>>
    \/ IconsFavicon /\ UNCHANGED <<walkVars, pureVars>>
    \/ IconsFavicon32 /\ UNCHANGED <<walkVars, pureVars>>

SpecBoth == InitBoth /\ [][BothNext]_vars

-----------------------------------------------------------------------------
(* Properties                                                              *)

Abs(x) == IF x < 0 THEN -x ELSE x
MinOf(x, y) == IF x < y THEN x ELSE y

\* a is before b in lexicographic order of character codes
LexBefore(a, b) ==
    \/ Len(a) < Len(b) /\ a = SubSeq(b, 1, Len(a))
    \/ \E k \in 1..MinOf(Len(a), Len(b)) :
          /\ SubSeq(a, 1, k - 1) = SubSeq(b, 1, k - 1)
          /\ a[k] < b[k]

\* x comes before y in the nested order trail, waypoint, file name
VisitBefore(x, y) ==
    \/ LexBefore(x.trail, y.trail)
    \/ x.trail = y.trail /\ LexBefore(x.wp, y.wp)
    \/ x.trail = y.trail /\ x.wp = y.wp /\ LexBefore(x.name, y.name)

\* the name ends, whatever the case, in one of the four extensions and
\* has a stem before it
ExtOf(name) ==
    {ext \in ImageSuffixes :
        /\ Len(name) > Len(ext)
        /\ Lower(SubSeq(name, Len(name) - Len(ext) + 1, Len(name))) = ext}
Accepted(e) == e.kind = "file" /\ ExtOf(e.name) # {}
\* thumbs/<stem>.jpg for an accepted name
ExpectedThumb(name) ==
    LET ext == CHOOSE x \in ExtOf(name) : TRUE
    IN  SubSeq(name, 1, Len(name) - Len(ext)) \o StrDotJpg

\* the waypoint directories a run visits
WaypointDirs ==
    {p \in Places : /\ fs.exists
                    /\ Dir(p[1]) \in fs.root
                    /\ fs.photos[p[1]]
                    /\ Dir(p[2]) \in fs.wps[p[1]]}
At(p, name) == [trail |-> p[1], wp |-> p[2], name |-> name]
InLog(r, x) == \E i \in DOMAIN log[r] : log[r][i] = x

\* C1: for every decodable image with width # height the crop box is a
\* square of side min(w, h), lies within the image, and its two margins
\* along the longer axis differ by at most 1
CropBoxCentered ==
    (res # NotRun /\ ~img.corrupt /\ img.w # img.h) =>
        LET b == res.box
            side == MinOf(img.w, img.h)
        IN  /\ b.right - b.left = side
            /\ b.bottom - b.top = side
            /\ 0 <= b.left /\ b.right <= img.w
            /\ 0 <= b.top /\ b.bottom <= img.h
            /\ IF img.w > img.h
               THEN Abs(b.left - (img.w - b.right)) <= 1
               ELSE Abs(b.top - (img.h - b.bottom)) <= 1

\* a 7x4 image has been cropped to columns 1..5
CropBoxWitness ==
    /\ res # NotRun
    /\ img.w = 7 /\ img.h = 4 /\ ~img.corrupt
    /\ res.box = [left |-> 1, top |-> 0, right |-> 5, bottom |-> 4]

\* C5: every decodable image whose mode has alpha or is palette-indexed
\* reaches the JPEG encoder in mode RGB, and encoding does not fail
AlphaOrPaletteBecomesRGB ==
    (res # NotRun /\ ~img.corrupt /\ img.mode \in AlphaModes \cup {"P"}) =>
        /\ res.mode = "RGB"
        /\ res.error # "EncodeError"

IconFile(name) == {f \in icons.files : f.name = name}
HasFrames(name, sizes) ==
    /\ IconFile(name) # {}
    /\ \A f \in IconFile(name) :
          f.frames = {[w |-> n, h |-> n] : n \in sizes}

\* C7: every output image is square at its target size (192, 512, 180,
\* the favicon.ico frames 16, 32 and 48, 32, and 160 for a thumbnail) and
\* a successful Icon Generator run leaves all five icon files
OutputsSquareAtTargetSize ==
    /\ ipc = "done" =>
          /\ HasFrames(StrIcon192, {192})
          /\ HasFrames(StrIcon512, {512})
          /\ HasFrames(StrAppleTouch, {180})
          /\ HasFrames(StrFaviconIco, {16, 32, 48})
          /\ HasFrames(StrFavicon32, {32})
    /\ (res # NotRun /\ res.ok) => res.w = 160 /\ res.h = 160

\* the colour channel c with alpha a blended with white, rounded to the
\* nearest integer
IsBlendWithWhite(out, pix) ==
    /\ out.a = ChannelMax
    /\ out.c \in 0..ChannelMax
    /\ 2 * Abs(ChannelMax * out.c
               - (pix.c * pix.a + ChannelMax * (ChannelMax - pix.a)))
          <= ChannelMax
    /\ pix.a = 0 => out.c = ChannelMax

OpaqueIconFiles == {f \in icons.files : f.mode = "RGB"}

\* C4 as amended: the outputs of the Icon Generator that hold no alpha
\* (apple-touch-icon.png, favicon.ico) are the source blended with white;
\* a JPEG thumbnail keeps the stored colour of its pixel, alpha dropped
IconsCompositedOnWhite ==
    /\ \A f \in OpaqueIconFiles : IsBlendWithWhite(f.pix, Logo.pix)
    /\ ipc = "done" =>
          {f.name : f \in OpaqueIconFiles} = {StrAppleTouch, StrFaviconIco}
    /\ (res # NotRun /\ res.ok) => res.pix = Pixel(img.pix.c, ChannelMax)

\* the favicon of a logo pixel of colour 40 and alpha 128 has colour 147
IconsCompositedWitness ==
    /\ logo.image.pix = Pixel(40, 128)
    /\ \E f \in IconFile(StrFaviconIco) : f.pix = Pixel(147, ChannelMax)

\* C4: every output without transparency, the JPEG thumbnail included, is
\* the source blended with white
AllOpaqueOutputsCompositedOnWhite ==
    /\ \A f \in OpaqueIconFiles : IsBlendWithWhite(f.pix, Logo.pix)
    /\ (res # NotRun /\ res.ok) => IsBlendWithWhite(res.pix, img.pix)

\* the accepted files of waypoint p that share the thumbnail name of e
SameThumb(p, e) ==
    {o \in fs.files[p] : Accepted(o) /\ ExpectedThumb(o.name) = ExpectedThumb(e.name)}

\* C2: accepted files of one waypoint with the same stem and different
\* extensions write the same thumbs/<stem>.jpg; after the run completes
\* that file exists once and is the thumbnail of the one among them that
\* is last in lexicographic order
SameStemLastWins ==
    pc = "done" =>
        \A p \in WaypointDirs : \A e \in fs.files[p] :
            (Accepted(e) /\ Cardinality(SameThumb(p, e)) > 1) =>
                LET written == {j \in thumbs[p].jpgs :
                                   j.name = ExpectedThumb(e.name)}
                IN  /\ Cardinality(written) = 1
                    /\ \A j \in written :
                          /\ j.src \in {o.name : o \in SameThumb(p, e)}
                          /\ \A o \in SameThumb(p, e) :
                                o.name = j.src \/ LexBefore(o.name, j.src)
                    /\ \A o \in SameThumb(p, e) : InLog(run, At(p, o.name))

\* img.JPG and img.png in one waypoint: thumbs/img.jpg comes from img.png
SameStemWitness ==
    /\ pc = "done"
    /\ \E p \in WaypointDirs :
          /\ {ImgUpperJpg, ImgLowerPng} \subseteq fs.files[p]
          /\ [name |-> <<105, 109, 103, 46, 106, 112, 103>>,
              src |-> ImgLowerPng.name] \in thumbs[p].jpgs

\* C3: in every run the images are processed in the nested lexicographic
\* order of trail, waypoint and file name, the waypoints are reported in
\* that order too, and a later run over the same tree processes the same
\* sequence as the first
NestedLexicographicOrder ==
    /\ \A r \in 1..MaxRuns : \A i \in DOMAIN log[r], j \in DOMAIN log[r] :
          i < j => VisitBefore(log[r][i], log[r][j])
    /\ \A r \in 1..MaxRuns :
          \A i \in DOMAIN reports[r], j \in DOMAIN reports[r] :
             i < j => \/ LexBefore(reports[r][i].trail, reports[r][j].trail)
                      \/ /\ reports[r][i].trail = reports[r][j].trail
                         /\ LexBefore(reports[r][i].wp, reports[r][j].wp)
    /\ \A r \in 2..run : (r < run \/ pc = "done") => log[r] = log[1]

\* a second run has processed two images of different trails
NestedOrderWitness ==
    /\ pc = "done" /\ run = 2
    /\ Len(log[2]) = 2
    /\ log[2][1].trail # log[2][2].trail

\* the entry of the tree a log line names
Logged(x) == {e \in fs.files[<<x.trail, x.wp>>] : e.name = x.name}

\* C6: an image whose decoding or encoding raises ends the run in the
\* error state at that image; nothing more is done, and no image that
\* comes after it in the enumeration order is processed or gets a
\* thumbnail
FailureAbortsBatch ==
    /\ \A r \in 1..MaxRuns : \A i \in DOMAIN log[r] :
          \A e \in Logged(log[r][i]) :
             ~create_square_thumbnail(e.image).ok =>
                /\ pc = "error"
                /\ r = run /\ i = Len(log[r])
                /\ failed = log[r][i]
    /\ pc = "error" =>
          /\ failed # NoFile
          /\ ~ENABLED (Main \/ MainLoop \/ TrailLoop \/ WaypointLoop \/ Rerun)
          /\ \A p \in Places : \A e \in fs.files[p] :
                VisitBefore(failed, At(p, e.name)) =>
                   /\ ~InLog(run, At(p, e.name))
                   /\ ~\E j \in thumbs[p].jpgs : j.src = e.name
          /\ \A i \in DOMAIN reports[run] :
                ~(reports[run][i].trail = failed.trail
                  /\ reports[run][i].wp = failed.wp)

\* g.png has failed and img.JPG, later in the order, is left unprocessed
FailureAbortsWitness ==
    /\ pc = "error"
    /\ failed.name = GreyAlphaPng.name
    /\ \E p \in WaypointDirs :
          /\ ImgUpperJpg \in fs.files[p]
          /\ VisitBefore(failed, At(p, ImgUpperJpg.name))
          /\ thumbs[p].jpgs = {}

\* the names in each thumbs directory
ThumbFiles ==
    [p \in Places |-> [kind |-> thumbs[p].kind,
                       names |-> {j.name : j \in thumbs[p].jpgs}]]

\* C9: a run after the first does not fail, changes the set of files of
\* no thumbs directory, and when it completes has reported the same count
\* for every waypoint as the first run
RerunIsSafe ==
    [][run' >= 2 =>
          /\ pc' # "error"
          /\ ThumbFiles' = ThumbFiles
          /\ pc' = "done" => reports'[run'] = reports'[1]]_vars

\* a second run has completed over a waypoint whose thumbs directory held
\* an older thumbnail beside the new one
RerunWitness ==
    /\ run = 2 /\ pc = "done"
    /\ \E i \in DOMAIN reports[2] : reports[2][i].count = 2

\* C10: only regular files with one of the four extensions, whatever the
\* case, are decoded, and only entries of waypoint directories; a
\* thumbnail is written only for such a file, and when a run completes
\* every such file has been processed and has its thumbs/<stem>.jpg
ThumbnailIffImageFile ==
    /\ \A r \in 1..MaxRuns : \A i \in DOMAIN log[r] :
          /\ <<log[r][i].trail, log[r][i].wp>> \in WaypointDirs
          /\ \E e \in Logged(log[r][i]) : Accepted(e)
    /\ \A p \in Places : \A j \in thumbs[p].jpgs :
          j.src # <<>> =>
             \E e \in fs.files[p] :
                Accepted(e) /\ e.name = j.src /\ j.name = ExpectedThumb(e.name)
    /\ pc = "done" =>
          \A p \in WaypointDirs : \A e \in fs.files[p] :
             Accepted(e) =>
                /\ InLog(run, At(p, e.name))
                /\ \E j \in thumbs[p].jpgs : j.name = ExpectedThumb(e.name)

\* a completed run over a waypoint that holds img.JPG and the directory
\* album.png
ThumbnailIffWitness ==
    /\ pc = "done"
    /\ \E p \in WaypointDirs :
          /\ fs.files[p] = {ImgUpperJpg, AlbumDir}
          /\ {j.src : j \in thumbs[p].jpgs} = {ImgUpperJpg.name}
          /\ log[run] = <<At(p, ImgUpperJpg.name)>>

\* the trails root exists and holds no trail directory
ZeroTrails == fs.exists /\ ~\E e \in fs.root : e.kind = "dir"
NoThumbnailOutput ==
    /\ \A p \in Places : thumbs[p] = [kind |-> "absent", jpgs |-> {}]
    /\ \A r \in 1..MaxRuns : log[r] = <<>> /\ reports[r] = <<>>
FiveIcons ==
    {f.name : f \in icons.files} =
        {StrIcon192, StrIcon512, StrAppleTouch, StrFaviconIco, StrFavicon32}

\* C8 as amended: with a trails root that holds no trail directory the
\* Thumbnail Generator ends without error and creates nothing; the Icon
\* Generator does not look at the trails root and, when its logo can be
\* read, ends with its five icon files
ZeroTrailsThumbnailsOnly ==
    ZeroTrails =>
        /\ pc \in {"start", "main_loop", "done"}
        /\ NoThumbnailOutput
        /\ ipc = "done" <=> (logo.exists /\ FiveIcons)
        /\ ipc = "error" => ~logo.exists

\* both utilities have ended on a trails root that holds only README.md
ZeroTrailsWitness ==
    /\ ZeroTrails /\ fs.root = {StrayRootFile}
    /\ pc = "done" /\ ipc = "done"
    /\ FiveIcons

\* C8: with a trails root that holds no trail directory both utilities,
\* once they have ended without error, have created no output file
ZeroTrailsNoOutput ==
    (ZeroTrails /\ pc = "done" /\ ipc = "done") =>
        /\ NoThumbnailOutput
        /\ icons.files = {}

====
